---- MODULE Spec2Model ----
(***************************************************************************)
(* A model of the message routing and audit-logging core of the            *)
(* repository: core/blockchain_logger.py (CommunicationLogger, the         *)
(* hash-chained ledger) and core/communication_orchestrator.py             *)
(* (MessageQueue, CommunicationOrchestrator), with the Message type of     *)
(* core/base_agent.py.                                                     *)
(*                                                                         *)
(* SHA-256 is modelled as a collision-free digest: the digest of a value   *)
(* is the record [sha256 |-> value], so two digests are equal exactly when *)
(* the hashed serialisations are equal.  Python's None is NoneV.           *)
(***************************************************************************)
EXTENDS Integers, Sequences, FiniteSets, TLC

VARIABLES
    \* ---- CommunicationLogger (core/blockchain_logger.py)
    local_blockchain,      \* self.local_blockchain: the chain, a list of entries
    exported,              \* the list last returned by export_blockchain()
    import_result,         \* what the last import_blockchain() returned
    next_uuid,             \* source of uuid4() values for entry_id
    logger_threads,        \* callers inside log_message / log_decision
    \* ---- wall clock read by datetime.now()
    clock,
    \* ---- CommunicationOrchestrator (core/communication_orchestrator.py)
    agents,                \* self.agents: agent_id -> agent object
    message_queues,        \* self.message_queues: agent_id -> MessageQueue object
    queues,                \* the MessageQueue objects: object id -> heap list
    stats,                 \* self.stats counters
    active_conversations,  \* self.active_conversations
    shutdown_event,        \* self.shutdown_event.is_set()
    processing_threads,    \* self.processing_threads: the worker threads
    next_msg_id,           \* source of uuid4() values for Message.id
    \* ---- observations (history) used to state properties
    last_send,             \* the last completed send_message call
    delivered,             \* messages handed to process_message
    last_queue_op,         \* the last put/get on a MessageQueue
    tampered,              \* the stored entry and field changed behind the ledger's back
    enqueued_log,          \* every put that send_message completed
    last_log,              \* the last completed log_message / log_decision call
    unregister_calls,      \* the unregister_agent calls made
    get_call,              \* the caller inside MessageQueue.get, if there is one
    sending,               \* the send_message calls in progress, by caller
    system_health          \* the last _assess_system_health call and its result

ledgerVars == <<local_blockchain, exported, import_result, next_uuid, logger_threads>>
orchVars == <<agents, message_queues, queues, stats, active_conversations,
              shutdown_event, processing_threads, next_msg_id>>
\* The threads that call send_message at the same time: an external caller
\* and a worker that sends its agent's response.
SendCallers == {"external", "worker"}

sendVars == <<last_send, delivered, last_queue_op, tampered, enqueued_log,
              unregister_calls, get_call, sending, system_health>>
histVars == <<sendVars, last_log>>
vars == <<ledgerVars, clock, orchVars, histVars>>

\* ------------------------------------------------------------------ bounds
MaxChain == 3        \* appends made in one ledger run
MaxClock == 2        \* last reading of the wall clock
MaxMsgs == 2         \* messages created in one orchestrator run
MaxQueueObjs == 3    \* MessageQueue objects created in one orchestrator run
MaxThreads == 2      \* worker threads started in one orchestrator run
MaxPuts == 4         \* messages put into the stand-alone MessageQueue
MaxFailed == 13      \* messages_failed when the health of the system is assessed
MaxTaken == 20       \* messages taken from the queues before the assessment

NoneV == "None"

\* ------------------------------------------------- core/base_agent.py types
MessageTypes == {"report", "request", "response", "escalation", "notification"}
AgentRoles == {"ceo", "senior_manager", "sme"}

\* A datetime object and the string isoformat() makes of it are different values.
DateTime(t) == [kind |-> "datetime", t |-> t]
IsoString(t) == [kind |-> "str", t |-> t]

\* Message(id, sender_id, recipient_id, message_type, content, timestamp, priority)
Message(id, sender, recipient, mtype, content, ts, prio) ==
    [id |-> id, sender_id |-> sender, recipient_id |-> recipient,
     message_type |-> mtype, content |-> content, timestamp |-> ts,
     priority |-> prio]

\* ------------------------------------------------------------------ ledger
GenesisZeros == 64
GenesisHash == [zeros |-> GenesisZeros]

\* json.dumps(content, sort_keys=True) hashed with SHA-256
_hash_content(content) == [sha256 |-> content]

\* The entry without its entry_hash field, serialised and hashed.
_hash_entry(entry) ==
    [sha256 |-> [f \in (DOMAIN entry) \ {"entry_hash"} |-> entry[f]]]

_get_previous_hash(chain) ==
    IF chain = << >> THEN GenesisHash ELSE chain[Len(chain)].entry_hash

\* Mutant: the block number taken without the + 1.
NextBlockNumber_OffByOne(chain) == Len(chain)

\* len(self.local_blockchain) + 1
NextBlockNumber(chain) == Len(chain) + 1

\* entry.get(f): None for a key the dict does not have
Get(entry, f) == IF f \in DOMAIN entry THEN entry[f] ELSE NoneV

\* The dict log_message builds (lines 62-80), from the values it read.
MessageEntry(uuid, m, block_number, previous_hash) ==
    LET e == [entry_id |-> uuid, message_id |-> m.id,
              sender_id |-> m.sender_id, recipient_id |-> m.recipient_id,
              message_type |-> m.message_type,
              content_hash |-> _hash_content(m.content),
              timestamp |-> IsoString(m.timestamp.t), priority |-> m.priority,
              block_number |-> block_number, previous_hash |-> previous_hash]
    IN  [f \in (DOMAIN e) \cup {"entry_hash"} |->
            IF f = "entry_hash" THEN _hash_entry(e) ELSE e[f]]

\* The dict log_decision builds (lines 106-122); d is the call's arguments.
DecisionEntry(uuid, d, now, block_number, previous_hash) ==
    LET e == [entry_id |-> uuid, type |-> "agent_decision",
              agent_id |-> d.agent_id,
              decision_context_hash |-> _hash_content(d.context),
              decision_outcome_hash |-> _hash_content(d.outcome),
              timestamp |-> IsoString(now),
              block_number |-> block_number, previous_hash |-> previous_hash]
    IN  [f \in (DOMAIN e) \cup {"entry_hash"} |->
            IF f = "entry_hash" THEN _hash_entry(e) ELSE e[f]]

\* op is a call: [op |-> "log_message", message |-> m] or
\* [op |-> "log_decision", decision |-> d]
BuildEntry(uuid, op, now, block_number, previous_hash) ==
    IF op.op = "log_message"
    THEN MessageEntry(uuid, op.message, block_number, previous_hash)
    ELSE DecisionEntry(uuid, op.decision, now, block_number, previous_hash)

\* verify_blockchain_integrity: the loop skips index 0 altogether.
EntryVerifies(chain, i) ==
    \/ i = 1
    \/ /\ chain[i].previous_hash = chain[i - 1].entry_hash
       /\ chain[i].entry_hash = _hash_entry(chain[i])

verify_blockchain_integrity(chain) ==
    \A i \in 1..Len(chain) : EntryVerifies(chain, i)

\* ----------------------------------------------------------- ledger inputs
LedgerAgentIds == {"mgr", "sme"}
LedgerMessages ==
    { Message(id, s, "mgr", "request", "payload", DateTime(t), 3) :
        id \in 1..2, s \in LedgerAgentIds, t \in 1..MaxClock }
LedgerDecisions ==
    { [agent_id |-> a, context |-> "ctx", outcome |-> "approve"] :
        a \in LedgerAgentIds }
LedgerCalls ==
    { [op |-> "log_message", message |-> m] : m \in LedgerMessages } \cup
    { [op |-> "log_decision", decision |-> d] : d \in LedgerDecisions }

\* self.local_blockchain.append(blockchain_entry), put at the front instead
AppendEntry_Prepend(chain, entry) == <<entry>> \o chain

\* self.local_blockchain.append(blockchain_entry)
AppendEntry(chain, entry) == Append(chain, entry)

\* ------------------------------------------- ledger operations, one caller
\* log_message / log_decision run to completion by a single caller.
LogAppend(call) ==
    /\ next_uuid <= MaxChain
    /\ local_blockchain' =
          AppendEntry(local_blockchain,
                      BuildEntry(next_uuid, call, clock,
                                 NextBlockNumber(local_blockchain),
                                 _get_previous_hash(local_blockchain)))
    /\ next_uuid' = next_uuid + 1
    /\ last_log' = call
    /\ UNCHANGED <<exported, import_result, logger_threads>>

log_message ==
    /\ \E m \in LedgerMessages : LogAppend([op |-> "log_message", message |-> m])
    /\ UNCHANGED <<clock, orchVars, sendVars>>

log_decision ==
    /\ \E d \in LedgerDecisions : LogAppend([op |-> "log_decision", decision |-> d])
    /\ UNCHANGED <<clock, orchVars, sendVars>>

\* datetime.now() advances between calls
Tick ==
    /\ clock < MaxClock
    /\ clock' = clock + 1
    /\ UNCHANGED <<ledgerVars, orchVars, histVars>>

\* ------------------------------------------------------------ initial state
LoggerThreadIds == {1, 2}
IdleThread == [pc |-> "idle"]

LedgerInit ==
    /\ local_blockchain = << >>
    /\ exported = << >>
    /\ import_result = [called |-> FALSE, data |-> << >>, returned |-> FALSE]
    /\ next_uuid = 1
    /\ logger_threads = [t \in LoggerThreadIds |-> IdleThread]

OrchInit ==
    /\ agents = << >>
    /\ message_queues = << >>
    /\ queues = [a \in {"ceo", "mgr", "sme"} |-> << >>]
    /\ stats = [messages_processed |-> 0, messages_failed |-> 0]
    /\ active_conversations = << >>
    /\ shutdown_event = FALSE
    /\ processing_threads = << >>
    /\ next_msg_id = 1

HistInit ==
    /\ last_send = [seq |-> 0]
    /\ delivered = {}
    /\ last_queue_op = [op |-> NoneV]
    /\ tampered = [index |-> 0, field |-> NoneV]
    /\ enqueued_log = {}
    /\ last_log = [op |-> NoneV]
    /\ unregister_calls = {}
    /\ get_call = [pc |-> "idle"]
    /\ sending = [c \in SendCallers |-> [pc |-> "idle"]]
    /\ system_health = [called |-> FALSE]

Init == LedgerInit /\ OrchInit /\ HistInit /\ clock = 1

\* ------------------------------------- the ledger used by a single caller
LedgerNext == log_message \/ log_decision \/ Tick
SpecLedger == Init /\ [][LedgerNext]_vars

\* C2: after any sequence of N appends to an initially empty ledger,
\* verify_blockchain_integrity() returns true and the block numbers, in chain
\* order, are exactly 1..N.
C2_ChainIntegrity ==
    /\ verify_blockchain_integrity(local_blockchain)
    /\ \A i \in 1..Len(local_blockchain) : local_blockchain[i].block_number = i

C2_Witness ==
    /\ Len(local_blockchain) = MaxChain
    /\ \E i, j \in 1..MaxChain :
          /\ "message_id" \in DOMAIN local_blockchain[i]
          /\ "agent_id" \in DOMAIN local_blockchain[j]

\* ------------------------------------------------- export / import / tamper
export_blockchain ==
    /\ exported' = local_blockchain
    /\ UNCHANGED <<local_blockchain, import_result, next_uuid, logger_threads>>
    /\ UNCHANGED <<clock, orchVars, histVars>>

\* A value for field f that differs from the one entry e holds.
ChangedValue(e, f) ==
    CASE f = "entry_id" -> 0
      [] f = "timestamp" -> IsoString(0)
      [] f = "block_number" -> e.block_number + 1
      [] f = "previous_hash" -> [sha256 |-> [forged |-> TRUE]]
      [] f = "entry_hash" -> [sha256 |-> [forged |-> TRUE]]

TamperFields == {"entry_id", "timestamp", "block_number", "previous_hash", "entry_hash"}

ChangeField(chain, i, f) ==
    [chain EXCEPT ![i] = [chain[i] EXCEPT ![f] = ChangedValue(chain[i], f)]]

\* Lists a caller can hand to import_blockchain: the exported list, the list
\* without its first entry, and the list with one field of one entry changed.
ImportInputs(exp) ==
    {exp} \cup (IF exp = << >> THEN {} ELSE {Tail(exp)})
          \cup { ChangeField(exp, i, f) : i \in 1..Len(exp), f \in TamperFields }

\* import_blockchain: the list is stored first, then verified (lines 276-277).
\* import_blockchain that adds the list to the chain it holds
ImportedChain_Extend(old, data) == old \o data

ImportedChain(old, data) == data

import_blockchain ==
    /\ ~import_result.called
    /\ \E data \in ImportInputs(exported) :
          /\ local_blockchain' = ImportedChain(local_blockchain, data)
          /\ import_result' =
                [called |-> TRUE, data |-> data,
                 returned |-> verify_blockchain_integrity(
                                 ImportedChain(local_blockchain, data))]
    /\ UNCHANGED <<exported, next_uuid, logger_threads>>
    /\ UNCHANGED <<clock, orchVars, histVars>>

\* Someone with access to the stored dicts changes one field of one entry.
TamperEntry ==
    /\ tampered.index = 0
    /\ \E i \in 1..Len(local_blockchain), f \in TamperFields :
          /\ local_blockchain' = ChangeField(local_blockchain, i, f)
          /\ tampered' = [index |-> i, field |-> f]
    /\ UNCHANGED <<exported, import_result, next_uuid, logger_threads>>
    /\ UNCHANGED <<clock, orchVars, last_send, delivered, last_queue_op, enqueued_log, last_log,
                   unregister_calls, get_call, sending, system_health>>

LedgerIONext == log_message \/ log_decision \/ Tick \/ export_blockchain \/ import_blockchain
SpecLedgerIO == Init /\ [][LedgerIONext]_vars

LedgerTamperNext == log_message \/ log_decision \/ Tick \/ TamperEntry
SpecLedgerTamper == Init /\ [][LedgerTamperNext]_vars

\* C3: in every ledger state reached by log_message, log_decision,
\* export_blockchain and import_blockchain calls, the first entry's
\* previous_hash is the genesis value and every later entry's previous_hash is
\* the hash of the entry before it, which is that entry's entry_hash.
C3_ChainLinked ==
    \A i \in 1..Len(local_blockchain) :
        IF i = 1
        THEN local_blockchain[i].previous_hash = GenesisHash
        ELSE /\ local_blockchain[i].previous_hash = local_blockchain[i - 1].entry_hash
             /\ local_blockchain[i].previous_hash = _hash_entry(local_blockchain[i - 1])

\* C4: once any field of any stored entry has been changed,
\* verify_blockchain_integrity() returns false.
C4_TamperDetected ==
    tampered.index # 0 => ~verify_blockchain_integrity(local_blockchain)

\* ------------------------------------------ the ledger under concurrent use
\* log_message and log_decision take no lock.  A caller reads
\* len(self.local_blockchain) (line 75 / 113), then the previous hash
\* (line 76 / 114), then appends (line 96 / 131); other threads run in between.
LogReadLen(t) ==
    /\ logger_threads[t].pc = "idle"
    /\ next_uuid <= MaxChain
    /\ \E call \in LedgerCalls :
          logger_threads' = [logger_threads EXCEPT ![t] =
              [pc |-> "read_len", call |-> call, uuid |-> next_uuid, now |-> clock,
               block_number |-> NextBlockNumber(local_blockchain)]]
    /\ next_uuid' = next_uuid + 1
    /\ UNCHANGED <<local_blockchain, exported, import_result>>
    /\ UNCHANGED <<clock, orchVars, histVars>>

LogReadPrev(t) ==
    /\ logger_threads[t].pc = "read_len"
    /\ logger_threads' = [logger_threads EXCEPT ![t] =
          [f \in (DOMAIN logger_threads[t]) \cup {"previous_hash"} |->
              CASE f = "pc" -> "read_prev"
                [] f = "previous_hash" -> _get_previous_hash(local_blockchain)
                [] OTHER -> logger_threads[t][f]]]
    /\ UNCHANGED <<local_blockchain, exported, import_result, next_uuid>>
    /\ UNCHANGED <<clock, orchVars, histVars>>

LogCommit(t) ==
    /\ logger_threads[t].pc = "read_prev"
    /\ LET th == logger_threads[t]
       IN  /\ local_blockchain' =
                 AppendEntry(local_blockchain,
                             BuildEntry(th.uuid, th.call, th.now, th.block_number,
                                        th.previous_hash))
           /\ last_log' = th.call
    /\ logger_threads' = [logger_threads EXCEPT ![t] = IdleThread]
    /\ UNCHANGED <<exported, import_result, next_uuid>>
    /\ UNCHANGED <<clock, orchVars, sendVars>>

LedgerConcurrentNext ==
    \/ \E t \in LoggerThreadIds : LogReadLen(t) \/ LogReadPrev(t) \/ LogCommit(t)
    \/ Tick
SpecLedgerConcurrent == Init /\ [][LedgerConcurrentNext]_vars

\* C1: whatever the interleaving of concurrent appends, no two entries share
\* a block_number and every entry's previous_hash is the entry_hash of the
\* entry stored immediately before it.
C1_ConcurrentAppendsConsistent ==
    /\ \A i, j \in 1..Len(local_blockchain) :
          i # j => local_blockchain[i].block_number # local_blockchain[j].block_number
    /\ \A i \in 2..Len(local_blockchain) :
          local_blockchain[i].previous_hash = local_blockchain[i - 1].entry_hash

\* ------------------------------------------------------------ MessageQueue
\* MessageQueue wraps queue.PriorityQueue, a binary heap (heapq) of tuples
\* (priority_value, timestamp, message).  Positions below are Python's
\* 0-based list indices; h[p + 1] is the element at index p.

\* a < b on two heap tuples.  Tuples compare element by element: the
\* priorities decide, then the timestamps; when both are equal the Message
\* objects are compared, and Message defines == (dataclass) but no <, so the
\* comparison of two different messages raises TypeError.
TupleLess(a, b) ==
    IF a.priority_value # b.priority_value
    THEN IF a.priority_value < b.priority_value THEN "lt" ELSE "ge"
    ELSE IF a.timestamp # b.timestamp
    THEN IF a.timestamp < b.timestamp THEN "lt" ELSE "ge"
    ELSE IF a.message = b.message THEN "ge" ELSE "TypeError"

Swap(h, p, q) == [h EXCEPT ![p + 1] = h[q + 1], ![q + 1] = h[p + 1]]

\* heapq._siftdown: move the item at pos up towards startpos.
RECURSIVE _siftdown(_, _, _)
_siftdown(h, startpos, pos) ==
    IF pos <= startpos
    THEN [heap |-> h, raised |-> FALSE]
    ELSE LET parentpos == (pos - 1) \div 2
             cmp == TupleLess(h[pos + 1], h[parentpos + 1])
         IN  CASE cmp = "TypeError" -> [heap |-> h, raised |-> TRUE]
               [] cmp = "ge" -> [heap |-> h, raised |-> FALSE]
               [] cmp = "lt" -> _siftdown(Swap(h, pos, parentpos), startpos, parentpos)

\* heapq._siftup: bubble the smaller child up until a leaf is hit, then
\* sift the item back down (towards the root) into place.
RECURSIVE SiftupLoop(_, _)
SiftupLoop(h, pos) ==
    LET endpos == Len(h)
        limit == endpos \div 2
        left == 2 * pos + 1
    IN  IF pos >= limit
        THEN _siftdown(h, 0, pos)
        ELSE IF left + 1 < endpos
        THEN LET cmp == TupleLess(h[left + 1], h[left + 2])
             IN  IF cmp = "TypeError"
                 THEN [heap |-> h, raised |-> TRUE]
                 ELSE LET childpos == IF cmp = "lt" THEN left ELSE left + 1
                      IN  SiftupLoop(Swap(h, childpos, pos), childpos)
        ELSE SiftupLoop(Swap(h, left, pos), left)

\* heapq.heappush: append, then sift.  When a comparison raises, the item
\* stays in the list where the sift had brought it.
heappush(h, item) == _siftdown(Append(h, item), 0, Len(h))

\* heapq.heappop: the last element replaces the root and is sifted.  When a
\* comparison raises, the old root has already left the list and is not
\* returned.
heappop(h) ==
    LET n == Len(h)
        lastelt == h[n]
        rest == SubSeq(h, 1, n - 1)
    IN  IF n = 1
        THEN [heap |-> << >>, raised |-> FALSE, item |-> lastelt]
        ELSE LET r == SiftupLoop([rest EXCEPT ![1] = lastelt], 0)
             IN  [heap |-> r.heap, raised |-> r.raised, item |-> h[1]]

\* 6 - message.priority: lower number = higher priority
PriorityValue(priority) == 6 - priority

\* MessageQueue.put(message) on heap h at wall-clock reading now
MessageQueue_put(h, message, now) ==
    heappush(h, [priority_value |-> PriorityValue(message.priority),
                 timestamp |-> now, message |-> message])

\* A get that returns the first item and leaves it in the heap
MessageQueue_get_Peeks(h) == [heappop(h) EXCEPT !.heap = h]

\* MessageQueue.get(timeout) on a heap that is not empty
MessageQueue_get(h) == heappop(h)

QueuedMessages(h) == { h[i].message : i \in 1..Len(h) }

\* ----------------------------------------------- one MessageQueue on its own
StandaloneQueue == "queue"
\* Message.priority is an int field that nothing checks: the documented values
\* 1..5 and one value on either side.
QueuePriorities == 0..6

InitQueue ==
    /\ LedgerInit /\ HistInit /\ clock = 1
    /\ agents = << >>
    /\ message_queues = << >>
    /\ queues = [q \in {StandaloneQueue} |-> << << >> >>]
    /\ stats = [messages_processed |-> 0, messages_failed |-> 0]
    /\ active_conversations = << >>
    /\ shutdown_event = FALSE
    /\ processing_threads = << >>
    /\ next_msg_id = 1

QueuePut ==
    /\ next_msg_id <= MaxPuts
    /\ \E prio \in QueuePriorities :
          LET m == Message(next_msg_id, "sme", "mgr", "request", "payload",
                           DateTime(clock), prio)
              h == queues[StandaloneQueue][1]
              r == MessageQueue_put(h, m, clock)
          IN  /\ queues' = [queues EXCEPT ![StandaloneQueue][1] = r.heap]
              /\ last_queue_op' = [op |-> "put", raised |-> r.raised, before |-> h,
                                   message |-> m]
    /\ next_msg_id' = next_msg_id + 1
    /\ UNCHANGED <<agents, message_queues, stats, active_conversations,
                   shutdown_event, processing_threads>>
    /\ UNCHANGED <<ledgerVars, clock, last_send, delivered, tampered, enqueued_log, last_log,
                   unregister_calls, get_call, sending, system_health>>

QueueGet ==
    /\ queues[StandaloneQueue][1] # << >>
    /\ LET h == queues[StandaloneQueue][1]
           r == MessageQueue_get(h)
       IN  /\ queues' = [queues EXCEPT ![StandaloneQueue][1] = r.heap]
           /\ last_queue_op' = [op |-> "get", raised |-> r.raised, before |-> h,
                                message |-> r.item.message]
    /\ UNCHANGED <<agents, message_queues, stats, active_conversations,
                   shutdown_event, processing_threads, next_msg_id>>
    /\ UNCHANGED <<ledgerVars, clock, last_send, delivered, tampered, enqueued_log, last_log,
                   unregister_calls, get_call, sending, system_health>>

QueueNext == QueuePut \/ QueueGet \/ Tick
SpecQueue == InitQueue /\ [][QueueNext]_vars

\* ---- MessageQueue.get(timeout) called on a queue that may be empty
\* The timeout arguments: the default None, and a number of seconds.
GetTimeouts == {"None", "1.0"}

\* get(timeout) is called: self._queue.get(timeout=timeout), block=True
QueueGetCall ==
    /\ get_call.pc = "idle"
    /\ \E timeout \in GetTimeouts :
          get_call' = [pc |-> "waiting", timeout |-> timeout]
    /\ UNCHANGED <<ledgerVars, clock, orchVars, last_log>>
    /\ UNCHANGED <<last_send, delivered, last_queue_op, tampered, enqueued_log,
                   unregister_calls, sending, system_health>>

\* The call returns: with an item as soon as there is one; with None when
\* the timeout runs out on an empty queue (queue.Empty, lines 52-53).  With
\* timeout None PriorityQueue.get waits on not_empty without a limit, so on
\* an empty queue the call does not return.
QueueGetReturn ==
    /\ get_call.pc = "waiting"
    /\ LET h == queues[StandaloneQueue][1]
       IN  IF h # << >>
           THEN LET r == MessageQueue_get(h)
                IN  /\ queues' = [queues EXCEPT ![StandaloneQueue][1] = r.heap]
                    /\ last_queue_op' = [op |-> "get", raised |-> r.raised,
                                         before |-> h, message |-> r.item.message]
           ELSE /\ get_call.timeout # "None"
                /\ last_queue_op' = [op |-> "get_empty"]
                /\ UNCHANGED queues
    /\ get_call' = [pc |-> "idle"]
    /\ UNCHANGED <<agents, message_queues, stats, active_conversations,
                   shutdown_event, processing_threads, next_msg_id>>
    /\ UNCHANGED <<ledgerVars, clock, last_send, delivered, tampered, enqueued_log,
                   last_log, unregister_calls, sending, system_health>>

QueueGetNext == QueuePut \/ QueueGetCall \/ QueueGetReturn \/ Tick
SpecQueueGet == InitQueue /\ [][QueueGetNext]_vars /\ WF_vars(QueueGetReturn)

\* C7: get always returns a message of the highest priority queued, the
\* earliest enqueued among those of equal priority, and no put fails.
\* (Messages get increasing ids as they are put, so ids give the enqueue order.)
C7_PriorityFifoNoPutFails ==
    /\ last_queue_op.op = "put" => ~last_queue_op.raised
    /\ last_queue_op.op = "get" =>
          /\ ~last_queue_op.raised
          /\ \A x \in QueuedMessages(last_queue_op.before) :
                /\ x.priority <= last_queue_op.message.priority
                /\ x.priority = last_queue_op.message.priority
                      => last_queue_op.message.id <= x.id

\* ------------------------------------------------ CommunicationOrchestrator
\* The orchestrator names the SME role AgentRole.SME; base_agent.py calls that
\* member SUBJECT_MATTER_EXPERT (value "sme").  The model takes the two names
\* for the one member.  Message, on the other hand, has the field id and no
\* attribute message_id, which three statements of the orchestrator read.
AgentIds == {"ceo", "mgr", "sme"}
Agent(id, role, manager) == [agent_id |-> id, role |-> role, manager_id |-> manager]

\* The agent objects callers register: the hierarchy of main.py, and a second
\* object for the id "sme" that has no manager.
AgentObjects ==
    { Agent("ceo", "ceo", NoneV), Agent("mgr", "senior_manager", "ceo"),
      Agent("sme", "sme", "mgr"), Agent("sme", "sme", NoneV) }

\* self.routing_rules as _setup_default_routing_rules leaves it.  The rules
\* name MessageType.INSTRUCTION, a member MessageType does not have; the
\* model writes it as a type of its own that no message carries.
RoutingRule(source_role, target_role, message_types, priority_threshold) ==
    [source_role |-> source_role, target_role |-> target_role,
     message_types |-> message_types, priority_threshold |-> priority_threshold]

routing_rules ==
    { RoutingRule("sme", "senior_manager", {"escalation", "report"}, 2),
      RoutingRule("senior_manager", "ceo", {"escalation", "report"}, 4),
      RoutingRule("senior_manager", "sme", {"response", "instruction"}, 1),
      RoutingRule("ceo", "senior_manager", {"response", "instruction"}, 1) }

\* message.content: None, an empty dict, or a dict that may carry conversation_id
ContentNone == [kind |-> "none", conversation_id |-> 0]
ContentEmpty == [kind |-> "empty", conversation_id |-> 0]
Content(conversation_id) == [kind |-> "data", conversation_id |-> conversation_id]

\* Python truthiness of a str / dict / None
Truthy(x) == x # "" /\ x # NoneV
ContentTruthy(content) == content.kind = "data"

\* hasattr(message, name): a Message has the fields of the dataclass only
HasAttr(m, name) == name \in DOMAIN m

\* _validate_message without the test of message.content
_validate_message_NoContentCheck(m) ==
    IF ~Truthy(m.sender_id)
    THEN FALSE
    ELSE m.sender_id \in DOMAIN agents

_validate_message(m) ==
    IF ~Truthy(m.sender_id) \/ ~ContentTruthy(m.content)
    THEN FALSE
    ELSE m.sender_id \in DOMAIN agents

_route_escalation(sender_agent) ==
    IF sender_agent.role = "sme" THEN sender_agent.manager_id
    ELSE IF sender_agent.role = "senior_manager" THEN sender_agent.manager_id
    ELSE NoneV

_route_report(sender_agent) == sender_agent.manager_id

\* message.content.get("conversation_id"): raises on content None
_route_response(m) ==
    IF m.content.kind = "none"
    THEN [raised |-> TRUE, target |-> NoneV]
    ELSE LET conversation_id == m.content.conversation_id
         IN  IF conversation_id # 0 /\ conversation_id \in DOMAIN active_conversations
             THEN [raised |-> FALSE,
                   target |-> active_conversations[conversation_id].original_sender]
             ELSE [raised |-> FALSE, target |-> NoneV]

\* _route_message that never passes an explicit recipient through
_route_message_NoPassThrough(m) ==
    IF m.sender_id \notin DOMAIN agents
    THEN [raised |-> FALSE, target |-> NoneV]
    ELSE CASE m.message_type = "escalation" ->
                 [raised |-> FALSE, target |-> _route_escalation(agents[m.sender_id])]
           [] m.message_type = "response" -> _route_response(m)
           [] m.message_type = "report" ->
                 [raised |-> FALSE, target |-> _route_report(agents[m.sender_id])]
           [] OTHER -> [raised |-> FALSE, target |-> NoneV]

\* _route_message that sends the types without a rule to the manager
_route_message_DefaultToManager(m) ==
    IF m.sender_id \notin DOMAIN agents
    THEN [raised |-> FALSE, target |-> NoneV]
    ELSE IF Truthy(m.recipient_id) /\ m.recipient_id \in DOMAIN agents
    THEN [raised |-> FALSE, target |-> m.recipient_id]
    ELSE CASE m.message_type = "escalation" ->
                 [raised |-> FALSE, target |-> _route_escalation(agents[m.sender_id])]
           [] m.message_type = "response" -> _route_response(m)
           [] OTHER -> [raised |-> FALSE, target |-> _route_report(agents[m.sender_id])]

_route_message(m) ==
    IF m.sender_id \notin DOMAIN agents
    THEN [raised |-> FALSE, target |-> NoneV]
    ELSE IF Truthy(m.recipient_id) /\ m.recipient_id \in DOMAIN agents
    THEN [raised |-> FALSE, target |-> m.recipient_id]
    ELSE CASE m.message_type = "escalation" ->
                 [raised |-> FALSE, target |-> _route_escalation(agents[m.sender_id])]
           [] m.message_type = "response" -> _route_response(m)
           [] m.message_type = "report" ->
                 [raised |-> FALSE, target |-> _route_report(agents[m.sender_id])]
           [] OTHER -> [raised |-> FALSE, target |-> NoneV]

\* The methods CommunicationLogger defines.
LoggerMethods ==
    {"log_message", "log_decision", "get_communication_history", "get_audit_trail",
     "verify_blockchain_integrity", "generate_compliance_report",
     "export_blockchain", "import_blockchain"}

\* _log_message_to_blockchain: the try block first reads message.message_id,
\* which a Message does not have, and then calls
\* blockchain_logger.log_communication, which CommunicationLogger does not
\* define; the AttributeError is caught at line 250 and printed, and the chain
\* is left as it was.
_log_message_to_blockchain(chain, m) ==
    IF HasAttr(m, "message_id") /\ "log_communication" \in LoggerMethods
    THEN Append(chain, [message_id |-> m.message_id, sender_id |-> m.sender_id,
                        recipient_id |-> m.recipient_id,
                        message_type |-> m.message_type])
    ELSE chain

\* _track_conversation(message): the new conversation table, or raised
_track_conversation(conversations, m, now) ==
    IF m.message_type \in {"escalation", "request"}
    THEN IF HasAttr(m, "message_id")
         THEN [raised |-> FALSE,
               conversations |->
                  [c \in (DOMAIN conversations) \cup {m.message_id} |->
                      IF c = m.message_id
                      THEN [original_sender |-> m.sender_id, started_at |-> now,
                            last_activity |-> now, message_count |-> 1,
                            status |-> "active"]
                      ELSE conversations[c]]]
         ELSE [raised |-> TRUE, conversations |-> conversations]
    ELSE IF m.message_type = "response"
    THEN LET conversation_id == m.content.conversation_id
         IN  IF conversation_id # 0 /\ conversation_id \in DOMAIN conversations
             THEN [raised |-> FALSE,
                   conversations |->
                      [conversations EXCEPT
                          ![conversation_id].last_activity = now,
                          ![conversation_id].message_count = @ + 1]]
             ELSE [raised |-> FALSE, conversations |-> conversations]
    ELSE [raised |-> FALSE, conversations |-> conversations]

Failed(st) == [st EXCEPT !.messages_failed = @ + 1]
Processed(st) == [st EXCEPT !.messages_processed = @ + 1]

\* The routing update without the assignment to recipient_id
Routed_KeepsRecipient(m, target, now) == [m EXCEPT !.timestamp = IsoString(now)]

\* message.recipient_id = target_agent_id; message.timestamp = now().isoformat()
Routed(m, target, now) ==
    [m EXCEPT !.recipient_id = target, !.timestamp = IsoString(now)]

\* What one send_message(m) call does to the orchestrator, as a record:
\* the return value, the new counters, queues, conversation table and chain,
\* the message object as the call leaves it, and where it was put.
SendOutcome(m, now) ==
    LET same == [result |-> FALSE, valid |-> TRUE, stats |-> Failed(stats),
                 queues |-> queues, conversations |-> active_conversations,
                 chain |-> _log_message_to_blockchain(local_blockchain, m),
                 message |-> m, put_in |-> NoneV, raised |-> FALSE]
    IN  IF ~_validate_message(m)
        THEN [same EXCEPT !.valid = FALSE, !.chain = local_blockchain]
        ELSE LET route == _route_message(m)
                 target == route.target
             IN  IF route.raised THEN [same EXCEPT !.raised = TRUE]
                 ELSE IF ~Truthy(target) THEN same
                 ELSE LET routed == Routed(m, target, now)
                      IN  IF target \notin DOMAIN message_queues
                          THEN [same EXCEPT !.message = routed]
                          ELSE LET q == message_queues[target]
                                   put == MessageQueue_put(queues[target][q], routed, now)
                                   newq == [queues EXCEPT ![target][q] = put.heap]
                                   track == _track_conversation(active_conversations,
                                                                routed, now)
                               IN  IF put.raised
                                   THEN [same EXCEPT !.message = routed, !.queues = newq,
                                                     !.raised = TRUE]
                                   ELSE IF track.raised
                                   THEN [same EXCEPT !.message = routed, !.queues = newq,
                                                     !.put_in = target, !.raised = TRUE,
                                                     !.stats = Failed(Processed(stats))]
                                   ELSE [same EXCEPT !.message = routed, !.queues = newq,
                                                     !.put_in = target, !.result = TRUE,
                                                     !.stats = Processed(stats),
                                                     !.conversations = track.conversations]

\* send_message(m) by caller `by` ("external" or a worker's agent id)
send_message(m, by) ==
    LET out == SendOutcome(m, clock)
    IN  /\ stats' = out.stats
        /\ queues' = out.queues
        /\ active_conversations' = out.conversations
        /\ local_blockchain' = out.chain
        /\ last_send' = [seq |-> last_send.seq + 1, by |-> by, message |-> m,
                         after |-> out.message,
                         valid |-> out.valid, result |-> out.result,
                         put_in |-> out.put_in, raised |-> out.raised]
        /\ enqueued_log' =
              IF out.put_in = NoneV THEN enqueued_log
              ELSE enqueued_log \cup
                      {[message_id |-> m.id, sender_id |-> m.sender_id,
                        message_type |-> m.message_type, agent |-> out.put_in,
                        conversation_id |-> m.content.conversation_id]}

\* ------------------------------------------------- orchestrator operations
QueueObjects == LET RECURSIVE Count(_)
                    Count(S) == IF S = {} THEN 0
                                ELSE LET a == CHOOSE x \in S : TRUE
                                     IN  Len(queues[a]) + Count(S \ {a})
                IN  Count(AgentIds)

\* register_agent that hands the messages of the id's former queue to the new one
register_agent_MergesQueue ==
    /\ QueueObjects < MaxQueueObjs
    /\ \E agent \in AgentObjects :
          LET id == agent.agent_id
              former == IF id \in DOMAIN message_queues
                        THEN queues[id][message_queues[id]] ELSE << >>
          IN  /\ agents' = [a \in (DOMAIN agents) \cup {id} |->
                               IF a = id THEN agent ELSE agents[a]]
              /\ queues' = [queues EXCEPT ![id] = Append(@, former)]
              /\ message_queues' = [a \in (DOMAIN message_queues) \cup {id} |->
                                       IF a = id THEN Len(queues[id]) + 1
                                       ELSE message_queues[a]]
    /\ UNCHANGED <<stats, active_conversations, shutdown_event, processing_threads,
                   next_msg_id>>
    /\ UNCHANGED <<ledgerVars, clock, histVars>>

\* register_agent(agent): the registry entry is overwritten and a new, empty
\* MessageQueue object replaces the one the id had.
register_agent ==
    /\ QueueObjects < MaxQueueObjs
    /\ \E agent \in AgentObjects :
          LET id == agent.agent_id
          IN  /\ agents' = [a \in (DOMAIN agents) \cup {id} |->
                               IF a = id THEN agent ELSE agents[a]]
              /\ queues' = [queues EXCEPT ![id] = Append(@, << >>)]
              /\ message_queues' = [a \in (DOMAIN message_queues) \cup {id} |->
                                       IF a = id THEN Len(queues[id]) + 1
                                       ELSE message_queues[a]]
    /\ UNCHANGED <<stats, active_conversations, shutdown_event, processing_threads,
                   next_msg_id>>
    /\ UNCHANGED <<ledgerVars, clock, histVars>>

\* Messages callers hand to send_message; id is the fresh uuid4 of the object.
\* One message for every path through send_message.  A sender or recipient
\* id is "not registered" in the states in which register_agent has not been
\* called for it.
SendInputs(id) ==
    \* escalations and reports without a recipient, from every level
    { Message(id, s, "", ty, Content(0), DateTime(clock), 3) :
         s \in AgentIds, ty \in {"escalation", "report"} } \cup
    \* every type with an explicit recipient
    { Message(id, "sme", "mgr", ty, Content(0), DateTime(clock), 3) :
         ty \in MessageTypes } \cup
    \* a report that names the CEO
    { Message(id, "sme", "ceo", "report", Content(0), DateTime(clock), 3) } \cup
    \* the other types without a recipient
    { Message(id, "sme", "", ty, Content(0), DateTime(clock), 3) :
         ty \in {"request", "notification", "response"} } \cup
    \* responses that name an earlier message as their conversation
    { Message(id, "mgr", "", "response", Content(c), DateTime(clock), 3) :
         c \in 1..(id - 1) } \cup
    \* messages validation is to reject
    { Message(id, "", "mgr", "report", Content(0), DateTime(clock), 3) } \cup
    { Message(id, "sme", "mgr", "report", c, DateTime(clock), 3) :
         c \in {ContentNone, ContentEmpty} }

Send ==
    /\ next_msg_id <= MaxMsgs
    /\ \E m \in SendInputs(next_msg_id) : send_message(m, "external")
    /\ next_msg_id' = next_msg_id + 1
    /\ UNCHANGED <<agents, message_queues, shutdown_event, processing_threads>>
    /\ UNCHANGED <<exported, import_result, next_uuid, logger_threads>>
    /\ UNCHANGED <<clock, delivered, last_queue_op, tampered, last_log,
                   unregister_calls, get_call, sending, system_health>>

\* ---- _assess_system_health
\* sum(queue.size() for queue in self.message_queues.values())
RECURSIVE SumSizes(_)
SumSizes(ids) ==
    IF ids = {} THEN 0
    ELSE LET a == CHOOSE x \in ids : TRUE
         IN  Len(queues[a][message_queues[a]]) + SumSizes(ids \ {a})

total_queue_size == SumSizes(DOMAIN message_queues)

\* The thresholds of lines 379 and 381.  failure_rate is the float
\* messages_failed / max(processed + failed, 1); the division is correctly
\* rounded, so for counters of this size failure_rate > 0.1 holds exactly
\* when 10 * messages_failed > max(processed + failed, 1), and
\* failure_rate > 0.05 exactly when 20 * messages_failed > the same.
DegradedQueueSize == 100
WarningQueueSize == 50
DegradedRateInverse == 10
WarningRateInverse == 20

Max2(a, b) == IF a >= b THEN a ELSE b

\* _assess_system_health with >= in place of >
_assess_system_health_AtThreshold(size, st) ==
    LET sent == Max2(st.messages_processed + st.messages_failed, 1)
    IN  IF size >= DegradedQueueSize
           \/ DegradedRateInverse * st.messages_failed >= sent
        THEN "degraded"
        ELSE IF size >= WarningQueueSize
                \/ WarningRateInverse * st.messages_failed >= sent
        THEN "warning"
        ELSE "healthy"

_assess_system_health(size, st) ==
    LET sent == Max2(st.messages_processed + st.messages_failed, 1)
    IN  IF size > DegradedQueueSize
           \/ DegradedRateInverse * st.messages_failed > sent
        THEN "degraded"
        ELSE IF size > WarningQueueSize
                \/ WarningRateInverse * st.messages_failed > sent
        THEN "warning"
        ELSE "healthy"

assess_system_health ==
    /\ system_health' = [called |-> TRUE, total_queue_size |-> total_queue_size,
                         stats |-> stats,
                         label |-> _assess_system_health(total_queue_size, stats)]
    /\ UNCHANGED <<ledgerVars, clock, orchVars, last_log>>
    /\ UNCHANGED <<last_send, delivered, last_queue_op, tampered, enqueued_log,
                   unregister_calls, get_call, sending>>

\* An orchestrator that has run for a while: the three agents of main.py
\* are registered, n reports of the SME wait in the manager's queue, and the
\* counters hold the sends made so far (every queued message was counted as
\* processed when it was put).
QueuedReports(n) ==
    [i \in 1..n |->
        [priority_value |-> PriorityValue(1), timestamp |-> i,
         message |-> Message(i, "sme", "mgr", "report", Content(0), IsoString(i), 1)]]

HealthQueueSizes ==
    {0, WarningQueueSize, WarningQueueSize + 1, DegradedQueueSize,
     DegradedQueueSize + 1}

InitHealth ==
    /\ LedgerInit /\ HistInit /\ clock = 1
    /\ agents = [a \in AgentIds |->
                    CASE a = "ceo" -> Agent("ceo", "ceo", NoneV)
                      [] a = "mgr" -> Agent("mgr", "senior_manager", "ceo")
                      [] a = "sme" -> Agent("sme", "sme", "mgr")]
    /\ message_queues = [a \in AgentIds |-> 1]
    /\ \E n \in HealthQueueSizes, taken \in 0..MaxTaken, failed \in 0..MaxFailed :
          /\ queues = [a \in AgentIds |->
                          IF a = "mgr" THEN << QueuedReports(n) >> ELSE << << >> >>]
          /\ stats = [messages_processed |-> n + taken, messages_failed |-> failed]
          /\ next_msg_id = n + taken + failed + 1
    /\ active_conversations = << >>
    /\ shutdown_event = FALSE
    /\ processing_threads = << >>

HealthNext == assess_system_health
SpecHealth == InitHealth /\ [][HealthNext]_vars

\* ---- send_message called by several threads at once
\* self.stats[key] += 1 reads the counter and stores the sum in separate
\* steps, and no lock is held between the two (lines 138, 146, 156, 165, 170).
\* The counters one call adds to, in the order in which it does.
CounterKeys(out) ==
    (IF out.stats.messages_processed # stats.messages_processed
     THEN <<"messages_processed">> ELSE << >>) \o
    (IF out.stats.messages_failed # stats.messages_failed
     THEN <<"messages_failed">> ELSE << >>)

\* The messages the concurrent callers send: an escalation and a report from
\* the SME, the manager's response, and a message validation is to reject.
ConcurrentSendInputs(id) ==
    { Message(id, "sme", "", "escalation", Content(0), DateTime(clock), 3),
      Message(id, "sme", "mgr", "report", Content(0), DateTime(clock), 3),
      Message(id, "", "mgr", "report", Content(0), DateTime(clock), 3) } \cup
    { Message(id, "mgr", "", "response", Content(c), DateTime(clock), 3) :
         c \in 1..(id - 1) }

\* The call up to its first counter statement: validation, logging, routing
\* and the put in the target's queue.
SendCallBegin ==
    /\ next_msg_id <= MaxMsgs
    /\ \E c \in SendCallers, m \in ConcurrentSendInputs(next_msg_id) :
          LET out == SendOutcome(m, clock)
          IN  /\ sending[c].pc = "idle"
              /\ queues' = out.queues
              /\ local_blockchain' = out.chain
              /\ sending' = [sending EXCEPT ![c] =
                                [pc |-> "read", message |-> m,
                                 after |-> out.message, valid |-> out.valid,
                                 result |-> out.result, put_in |-> out.put_in,
                                 raised |-> out.raised,
                                 keys |-> CounterKeys(out), value |-> 0]]
              /\ enqueued_log' =
                    IF out.put_in = NoneV THEN enqueued_log
                    ELSE enqueued_log \cup
                            {[message_id |-> m.id, sender_id |-> m.sender_id,
                              message_type |-> m.message_type, agent |-> out.put_in,
                              conversation_id |-> m.content.conversation_id]}
    /\ next_msg_id' = next_msg_id + 1
    /\ UNCHANGED <<agents, message_queues, stats, active_conversations,
                   shutdown_event, processing_threads>>
    /\ UNCHANGED <<exported, import_result, next_uuid, logger_threads>>
    /\ UNCHANGED <<clock, last_send, delivered, last_queue_op, tampered, last_log,
                   unregister_calls, get_call, system_health>>

\* self.stats[key] is read
SendCallRead ==
    /\ \E c \in SendCallers :
          /\ sending[c].pc = "read"
          /\ sending' = [sending EXCEPT ![c].pc = "write",
                                        ![c].value = stats[Head(sending[c].keys)]]
    /\ UNCHANGED <<ledgerVars, clock, orchVars, last_log>>
    /\ UNCHANGED <<last_send, delivered, last_queue_op, tampered, enqueued_log,
                   unregister_calls, get_call, system_health>>

\* self.stats[key] is stored; after messages_processed the conversation is
\* tracked; after its last counter the call returns.
SendCallWrite ==
    /\ \E c \in SendCallers :
          LET call == sending[c]
              key == Head(call.keys)
              rest == Tail(call.keys)
          IN  /\ call.pc = "write"
              /\ stats' = [stats EXCEPT ![key] = call.value + 1]
              /\ active_conversations' =
                    IF key = "messages_processed"
                    THEN _track_conversation(active_conversations,
                                             call.after, clock).conversations
                    ELSE active_conversations
              /\ IF rest = << >>
                 THEN /\ sending' = [sending EXCEPT ![c] = [pc |-> "idle"]]
                      /\ last_send' = [seq |-> last_send.seq + 1, by |-> c,
                                       message |-> call.message,
                                       after |-> call.after,
                                       valid |-> call.valid,
                                       result |-> call.result,
                                       put_in |-> call.put_in,
                                       raised |-> call.raised]
                 ELSE /\ sending' = [sending EXCEPT ![c].pc = "read",
                                                    ![c].keys = rest]
                      /\ UNCHANGED last_send
    /\ UNCHANGED <<agents, message_queues, queues, shutdown_event,
                   processing_threads, next_msg_id>>
    /\ UNCHANGED <<ledgerVars, clock, delivered, last_queue_op, tampered,
                   enqueued_log, last_log, unregister_calls, get_call, system_health>>

ConcurrentSendNext ==
    register_agent \/ SendCallBegin \/ SendCallRead \/ SendCallWrite \/ Tick
SpecConcurrentSend == Init /\ [][ConcurrentSendNext]_vars

\* start_processing: one thread per registered agent; the thread keeps the
\* agent object and the MessageQueue object it found when it started
\* (lines 293-294).
AgentOrder == <<"ceo", "mgr", "sme">>
NoMessage == [id |-> 0]

NewThreads ==
    LET registered == SelectSeq(AgentOrder, LAMBDA a : a \in DOMAIN agents)
    IN  [i \in 1..Len(registered) |->
            [agent_id |-> registered[i], agent |-> agents[registered[i]],
             queue |-> message_queues[registered[i]], pc |-> "loop",
             message |-> NoMessage, response |-> NoMessage]]

start_processing ==
    /\ Len(processing_threads) + Len(NewThreads) <= MaxThreads
    /\ processing_threads' = processing_threads \o NewThreads
    /\ UNCHANGED <<agents, message_queues, queues, stats, active_conversations,
                   shutdown_event, next_msg_id>>
    /\ UNCHANGED <<ledgerVars, clock, histVars>>

\* stop_processing: sets the event; the joins (timeout 5.0) only wait.
stop_processing ==
    /\ shutdown_event' = TRUE
    /\ UNCHANGED <<agents, message_queues, queues, stats, active_conversations,
                   processing_threads, next_msg_id>>
    /\ UNCHANGED <<ledgerVars, clock, histVars>>

\* ---- _process_agent_messages, one thread
\* The loop test without the shutdown event: while True
WorkerCheck_IgnoresShutdown(i) ==
    /\ processing_threads[i].pc = "loop"
    /\ processing_threads' = [processing_threads EXCEPT ![i].pc = "get"]
    /\ UNCHANGED <<agents, message_queues, queues, stats, active_conversations,
                   shutdown_event, next_msg_id>>
    /\ UNCHANGED <<ledgerVars, clock, histVars>>

\* while not self.shutdown_event.is_set()
WorkerCheck(i) ==
    /\ processing_threads[i].pc = "loop"
    /\ processing_threads' = [processing_threads EXCEPT
          ![i].pc = IF shutdown_event THEN "exited" ELSE "get"]
    /\ UNCHANGED <<agents, message_queues, queues, stats, active_conversations,
                   shutdown_event, next_msg_id>>
    /\ UNCHANGED <<ledgerVars, clock, histVars>>

\* A get that waits until no other thread is inside process_message
WorkerGet_WaitsForOthers(i) ==
    /\ processing_threads[i].pc = "get"
    /\ \A j \in (DOMAIN processing_threads) \ {i} : processing_threads[j].pc # "process"
    /\ LET th == processing_threads[i]
           h == queues[th.agent_id][th.queue]
       IN  IF h = << >>
           THEN /\ processing_threads' = [processing_threads EXCEPT ![i].pc = "loop"]
                /\ UNCHANGED queues
           ELSE LET r == MessageQueue_get(h)
                IN  /\ queues' = [queues EXCEPT ![th.agent_id][th.queue] = r.heap]
                    /\ processing_threads' = [processing_threads EXCEPT
                          ![i].pc = IF r.raised THEN "loop" ELSE "process",
                          ![i].message = IF r.raised THEN NoMessage ELSE r.item.message]
    /\ UNCHANGED <<agents, message_queues, stats, active_conversations,
                   shutdown_event, next_msg_id>>
    /\ UNCHANGED <<ledgerVars, clock, histVars>>

\* message_queue.get(timeout=1.0): None after the timeout on an empty queue;
\* a TypeError out of the heap is caught at line 315 and the loop continues.
WorkerGet(i) ==
    /\ processing_threads[i].pc = "get"
    /\ LET th == processing_threads[i]
           h == queues[th.agent_id][th.queue]
       IN  IF h = << >>
           THEN /\ processing_threads' = [processing_threads EXCEPT ![i].pc = "loop"]
                /\ UNCHANGED queues
           ELSE LET r == MessageQueue_get(h)
                IN  /\ queues' = [queues EXCEPT ![th.agent_id][th.queue] = r.heap]
                    /\ processing_threads' = [processing_threads EXCEPT
                          ![i].pc = IF r.raised THEN "loop" ELSE "process",
                          ![i].message = IF r.raised THEN NoMessage ELSE r.item.message]
    /\ UNCHANGED <<agents, message_queues, stats, active_conversations,
                   shutdown_event, next_msg_id>>
    /\ UNCHANGED <<ledgerVars, clock, histVars>>

\* What agent.process_message(message) can give back: a RESPONSE to the
\* sender, with or without an explicit recipient, naming the message as its
\* conversation or not.
Responses(agent, message, id) ==
    { Message(id, agent.agent_id, rc[1], "response", Content(rc[2]), DateTime(clock),
              message.priority) :
         rc \in {<<"", message.id>>, <<message.sender_id, message.id>>,
                 <<message.sender_id, 0>>} }

\* response = agent.process_message(message): None, a Message, or an exception,
\* which the except clause at line 315 catches before the loop continues.
WorkerProcess(i) ==
    /\ processing_threads[i].pc = "process"
    /\ LET th == processing_threads[i]
           Handed(outcome) == [agent_id |-> th.agent_id, message |-> th.message,
                               outcome |-> outcome]
       IN  \/ /\ \E outcome \in {"None", "raised"} :
                    delivered' = delivered \cup {Handed(outcome)}
              /\ processing_threads' = [processing_threads EXCEPT
                    ![i].pc = "loop", ![i].message = NoMessage]
              /\ UNCHANGED next_msg_id
           \/ /\ next_msg_id <= MaxMsgs
              /\ delivered' = delivered \cup {Handed("response")}
              /\ \E resp \in Responses(th.agent, th.message, next_msg_id) :
                    processing_threads' = [processing_threads EXCEPT
                       ![i].pc = "send", ![i].response = resp]
              /\ next_msg_id' = next_msg_id + 1
    /\ UNCHANGED <<agents, message_queues, queues, stats, active_conversations,
                   shutdown_event>>
    /\ UNCHANGED <<ledgerVars, clock, last_send, last_queue_op, tampered, enqueued_log, last_log,
                   unregister_calls, get_call, sending, system_health>>

\* if response: self.send_message(response)
WorkerSend(i) ==
    /\ processing_threads[i].pc = "send"
    /\ send_message(processing_threads[i].response, processing_threads[i].agent_id)
    /\ processing_threads' = [processing_threads EXCEPT
          ![i].pc = "loop", ![i].message = NoMessage, ![i].response = NoMessage]
    /\ UNCHANGED <<agents, message_queues, shutdown_event, next_msg_id>>
    /\ UNCHANGED <<exported, import_result, next_uuid, logger_threads>>
    /\ UNCHANGED <<clock, delivered, last_queue_op, tampered, last_log,
                   unregister_calls, get_call, sending, system_health>>

\* The steps of the threads start_processing has started.
Threads == 1..Len(processing_threads)
CheckShutdown == \E i \in Threads : WorkerCheck(i)
GetMessage == \E i \in Threads : WorkerGet(i)
ProcessMessage == \E i \in Threads : WorkerProcess(i)
SendResponse == \E i \in Threads : WorkerSend(i)

\* ---- send_message and register_agent called by one external caller
Next == register_agent \/ Send \/ Tick
Spec == Init /\ [][Next]_vars

\* ---- unregister_agent, which api/enhanced_web_api.py calls on the orchestrator
\* The methods CommunicationOrchestrator defines.
OrchestratorMethods ==
    {"register_agent", "send_message", "start_processing", "stop_processing",
     "get_agent_status", "get_system_status"}

\* self.orchestrator.unregister_agent(agent_id): the attribute lookup raises
\* AttributeError, and the registry, the queues and the threads stay as they
\* are.
unregister_agent ==
    /\ \E id \in DOMAIN agents :
          /\ \A c \in unregister_calls : c.agent_id # id
          /\ unregister_calls' = unregister_calls \cup
                {[agent_id |-> id, queue |-> message_queues[id],
                  raised |-> "unregister_agent" \notin OrchestratorMethods]}
    /\ UNCHANGED <<ledgerVars, clock, orchVars, last_log>>
    /\ UNCHANGED <<last_send, delivered, last_queue_op, tampered, enqueued_log,
                   get_call, sending, system_health>>

UnregisterNext == register_agent \/ Send \/ unregister_agent \/ Tick
SpecUnregister == Init /\ [][UnregisterNext]_vars

\* ---- the same with the worker threads running
\* Messages sent from outside while the workers run: a request to an explicit
\* recipient, and an escalation and a report left to routing.
WorkerSendInputs(id) ==
    { Message(id, "sme", "mgr", "request", Content(0), DateTime(clock), 3),
      Message(id, "sme", "", "escalation", Content(0), DateTime(clock), 3),
      Message(id, "mgr", "", "report", Content(0), DateTime(clock), 3) }

SendToWorkers ==
    /\ next_msg_id <= MaxMsgs
    /\ \E m \in WorkerSendInputs(next_msg_id) : send_message(m, "external")
    /\ next_msg_id' = next_msg_id + 1
    /\ UNCHANGED <<agents, message_queues, shutdown_event, processing_threads>>
    /\ UNCHANGED <<exported, import_result, next_uuid, logger_threads>>
    /\ UNCHANGED <<clock, delivered, last_queue_op, tampered, last_log,
                   unregister_calls, get_call, sending, system_health>>

WorkersNext ==
    \/ register_agent
    \/ SendToWorkers
    \/ start_processing
    \/ stop_processing
    \/ CheckShutdown
    \/ GetMessage
    \/ ProcessMessage
    \/ SendResponse
    \/ Tick
SpecWorkers == Init /\ [][WorkersNext]_vars

\* Every started thread is scheduled again and again.
WorkerStep(i) ==
    /\ i \in Threads
    /\ WorkerCheck(i) \/ WorkerGet(i) \/ WorkerProcess(i) \/ WorkerSend(i)

SpecWorkersFair == SpecWorkers /\ \A i \in 1..MaxThreads : WF_vars(WorkerStep(i))

\* ---- one agent whose process_message does not return
\* The thread whose agent's process_message never returns; the threads are
\* numbered in the order in which start_processing started them.
SlowThread == 1

\* The process_message calls that return
ProcessOthers == \E i \in Threads \ {SlowThread} : WorkerProcess(i)

SlowNext ==
    \/ register_agent
    \/ SendToWorkers
    \/ start_processing
    \/ stop_processing
    \/ CheckShutdown
    \/ GetMessage
    \/ ProcessOthers
    \/ SendResponse

\* Every thread but the slow one is scheduled again and again.
SpecSlowFair ==
    Init /\ [][SlowNext]_vars
         /\ \A i \in (1..MaxThreads) \ {SlowThread} : WF_vars(WorkerStep(i))

\* ---- the runs in which every reading of the clock gives the same value
\* (all timestamps tie, so the TypeError paths of put and get are taken)
StopNext ==
    \/ register_agent
    \/ SendToWorkers
    \/ start_processing
    \/ stop_processing
    \/ CheckShutdown
    \/ GetMessage
    \/ ProcessMessage
    \/ SendResponse

SpecStopFair ==
    Init /\ [][StopNext]_vars /\ \A i \in 1..MaxThreads : WF_vars(WorkerStep(i))

\* ------------------------------------------------------ send_message claims
\* The send_message call that the step completes, if the step is one.
SendCompleted == last_send'.seq # last_send.seq

\* The recipient the caller gave is a registered agent.
ExplicitRecipient(m) == m.recipient_id # "" /\ m.recipient_id \in DOMAIN agents

\* The ledger entries that record the message with this id.
LedgerEntriesOf(id) ==
    { i \in 1..Len(local_blockchain) :
         /\ "message_id" \in DOMAIN local_blockchain[i]
         /\ local_blockchain[i].message_id = id }

\* C5: a send_message call that passes validation has appended exactly one
\* ledger entry for the message, and every message that was put in an agent's
\* queue has a ledger entry.
C5_LoggedBeforeRouting ==
    /\ (last_send.seq > 0 /\ last_send.valid)
          => Cardinality(LedgerEntriesOf(last_send.message.id)) = 1
    /\ \A e \in enqueued_log : LedgerEntriesOf(e.message_id) # {}

\* C6: a send_message call whose message has an empty sender_id, a sender_id
\* that is not registered, or content None returns False, adds one to
\* messages_failed, leaves messages_processed as it was, appends nothing to
\* the ledger, enqueues nowhere and leaves the conversation table unchanged.
InvalidMessage(m) ==
    \/ m.sender_id = ""
    \/ m.sender_id \notin DOMAIN agents
    \/ m.content.kind = "none"

C6_InvalidSendRejected ==
    [][ (SendCompleted /\ InvalidMessage(last_send'.message)) =>
           /\ last_send'.result = FALSE
           /\ stats'.messages_failed = stats.messages_failed + 1
           /\ stats'.messages_processed = stats.messages_processed
           /\ local_blockchain' = local_blockchain
           /\ queues' = queues
           /\ active_conversations' = active_conversations ]_vars

\* A message with content None was sent by a registered sender to a
\* registered recipient whose queue holds an earlier message, and was rejected.
C6_Witness ==
    /\ last_send.seq > 1
    /\ last_send.message.content.kind = "none"
    /\ last_send.message.sender_id \in DOMAIN agents
    /\ last_send.message.recipient_id \in DOMAIN message_queues
    /\ queues[last_send.message.recipient_id]
             [message_queues[last_send.message.recipient_id]] # << >>
    /\ last_send.result = FALSE
    /\ stats.messages_failed >= 1

\* C8: an ESCALATION or REPORT from a registered sender without a registered
\* explicit recipient is enqueued in the queue of the sender's manager and
\* send_message returns True when that manager is registered; it returns
\* False and enqueues nowhere when the sender has no manager.
C8_EscalationReportToManager ==
    [][ (/\ SendCompleted
         /\ last_send'.valid
         /\ last_send'.message.message_type \in {"escalation", "report"}
         /\ ~ExplicitRecipient(last_send'.message)) =>
           LET manager_id == agents[last_send'.message.sender_id].manager_id
           IN  /\ manager_id = NoneV =>
                     /\ last_send'.result = FALSE
                     /\ last_send'.put_in = NoneV
                     /\ queues' = queues
               /\ (manager_id # NoneV /\ manager_id \in DOMAIN agents) =>
                     /\ last_send'.result = TRUE
                     /\ last_send'.put_in = manager_id ]_vars

\* The senders of the REQUESTs and ESCALATIONs that were enqueued under this
\* id: the original_sender a conversation with this id is to record.
OriginalSenders(conversation_id) ==
    { e.sender_id : e \in { x \in enqueued_log :
                               /\ x.message_id = conversation_id
                               /\ x.message_type \in {"request", "escalation"} } }

QueueOf(qs, a) == qs[a][message_queues[a]]

\* C11: a validated message that carries a registered recipient_id is put in
\* that agent's queue and in no other, whatever its type and whoever the
\* sender's manager is; a recipient_id that is not registered is ignored,
\* the call doing what it does for the same message without a recipient.
C11_ExplicitRecipientPassThrough ==
    [][ (SendCompleted /\ last_send'.valid) =>
           LET m == last_send'.message
               r == m.recipient_id
           IN  /\ ExplicitRecipient(m) =>
                     /\ \E x \in QueuedMessages(QueueOf(queues', r)) : x.id = m.id
                     /\ \A a \in AgentIds : a # r => queues'[a] = queues[a]
               /\ (r # "" /\ ~ExplicitRecipient(m)) =>
                     LET out == SendOutcome([m EXCEPT !.recipient_id = ""], clock)
                     IN  /\ last_send'.result = out.result
                         /\ last_send'.put_in = out.put_in
                         /\ queues' = out.queues ]_vars

\* A NOTIFICATION from an SME without a manager reached the queue of the
\* recipient it named, and a REPORT that named an unregistered CEO went to
\* the manager.
C11_Witness ==
    /\ last_send.seq > 0
    /\ last_send.valid
    /\ \/ /\ last_send.message.message_type = "notification"
          /\ last_send.message.recipient_id = "mgr"
          /\ last_send.put_in = "mgr"
          /\ agents[last_send.message.sender_id].manager_id = NoneV
       \/ /\ last_send.message.message_type = "report"
          /\ last_send.message.recipient_id = "ceo"
          /\ "ceo" \notin DOMAIN agents
          /\ agents[last_send.message.sender_id].manager_id = "mgr"
          /\ last_send.put_in = "mgr"

\* C12: a REQUEST or NOTIFICATION without a registered explicit recipient
\* makes send_message return False, enqueue nothing and add one to
\* messages_failed.
C12_NoDefaultRoute ==
    [][ (/\ SendCompleted
         /\ last_send'.message.message_type \in {"request", "notification"}
         /\ ~ExplicitRecipient(last_send'.message)) =>
           /\ last_send'.result = FALSE
           /\ queues' = queues
           /\ stats'.messages_failed = stats.messages_failed + 1 ]_vars

\* A valid REQUEST without a recipient was refused although the sender's
\* manager is registered.
C12_Witness ==
    /\ last_send.seq > 0
    /\ last_send.valid
    /\ last_send.message.message_type = "request"
    /\ last_send.message.recipient_id = ""
    /\ agents[last_send.message.sender_id].manager_id \in DOMAIN agents
    /\ last_send.result = FALSE
    /\ stats.messages_failed >= 1

\* C13: every send_message call adds one to exactly one of the two counters:
\* it returns True and counts the message as processed exactly when the call
\* put the message in a queue, and otherwise returns False, counts it as
\* failed and enqueues nothing.
C13_ExactlyOneCounter ==
    [][ SendCompleted =>
           IF queues' # queues
           THEN /\ last_send'.result = TRUE
                /\ stats'.messages_processed = stats.messages_processed + 1
                /\ stats'.messages_failed = stats.messages_failed
           ELSE /\ last_send'.result = FALSE
                /\ stats'.messages_processed = stats.messages_processed
                /\ stats'.messages_failed = stats.messages_failed + 1 ]_vars

\* C14: a send_message call that returns False at validation or at routing
\* (no exception involved) leaves the message's fields, every queue and the
\* conversation table as they were.
C14_NoPartialChangeOnFailure ==
    [][ (SendCompleted /\ ~last_send'.result /\ ~last_send'.raised) =>
           /\ last_send'.after = last_send'.message
           /\ queues' = queues
           /\ active_conversations' = active_conversations ]_vars

\* ------------------------------------------------------------ ledger claims
\* The import_blockchain call that the step completes, if the step is one.
ImportCompleted == import_result'.called /\ ~import_result.called

\* C15: import_blockchain returns False and keeps the chain the ledger held
\* when the list it is given fails verification, and returns True and takes
\* the list when it verifies.
C15_ImportVerifiesFirst ==
    [][ ImportCompleted =>
           IF verify_blockchain_integrity(import_result'.data)
           THEN /\ import_result'.returned = TRUE
                /\ local_blockchain' = import_result'.data
           ELSE /\ import_result'.returned = FALSE
                /\ local_blockchain' = local_blockchain ]_vars

\* C16: importing the list export_blockchain returned for a ledger built by
\* log_message and log_decision calls returns True, and the importing ledger
\* then holds the same entries in the same order and verifies (whatever the
\* importing ledger held before, a fresh ledger included).
C16_ExportImportRoundTrip ==
    [][ (ImportCompleted /\ import_result'.data = exported) =>
           /\ import_result'.returned = TRUE
           /\ local_blockchain' = exported
           /\ verify_blockchain_integrity(local_blockchain') ]_vars

\* An exported chain with a message entry and a decision entry was imported
\* into a ledger that had grown since the export.
C16_Witness ==
    /\ import_result.called
    /\ import_result.returned
    /\ import_result.data = exported
    /\ local_blockchain = exported
    /\ Len(exported) = 2
    /\ next_uuid > 3
    /\ \E i, j \in 1..Len(exported) :
          /\ "message_id" \in DOMAIN exported[i]
          /\ "agent_id" \in DOMAIN exported[j]

\* ----------------------------------------------------------- ledger queries
\* The result of a lookup: an entry, or None.
NoEntry == [found |-> FALSE]
Found(entry) == [found |-> TRUE, entry |-> entry]

\* A lookup that goes by entry_id
get_audit_trail_ByEntryId(chain, message_id) ==
    LET hits == { i \in 1..Len(chain) : chain[i].entry_id = message_id }
    IN  IF hits = {} THEN NoEntry
        ELSE Found(chain[CHOOSE i \in hits : \A j \in hits : i <= j])

\* get_audit_trail(message_id): the first entry with that message_id, or None
get_audit_trail(chain, message_id) ==
    LET hits == { i \in 1..Len(chain) :
                     /\ "message_id" \in DOMAIN chain[i]
                     /\ chain[i].message_id = message_id }
    IN  IF hits = {} THEN NoEntry
        ELSE Found(chain[CHOOSE i \in hits : \A j \in hits : i <= j])

\* datetime.fromisoformat(entry["timestamp"])
FromIsoformat(str) == DateTime(str.t)

\* An optional time bound that was not given
NoTime == [kind |-> "none"]

\* The entries get_communication_history keeps (lines 143-152), in chain order
HistoryFilter(chain, agent_id, start_time, end_time) ==
    LET Keep(entry) ==
           /\ \/ Get(entry, "sender_id") = agent_id
              \/ Get(entry, "recipient_id") = agent_id
           /\ LET entry_time == FromIsoformat(entry.timestamp)
              IN  /\ ~(start_time # NoTime /\ entry_time.t < start_time.t)
                  /\ ~(end_time # NoTime /\ entry_time.t > end_time.t)
    IN  SelectSeq(chain, Keep)

\* sorted(history, key=lambda x: x["timestamp"]): a stable sort on the ISO
\* strings, which for the naive datetimes the ledger stores order as the
\* times do.
RECURSIVE SortedByTimestamp(_)
SortedByTimestamp(history) ==
    IF history = << >> THEN << >>
    ELSE LET n == Len(history)
             front == SortedByTimestamp(SubSeq(history, 1, n - 1))
             x == history[n]
             before == SelectSeq(front, LAMBDA y : y.timestamp.t <= x.timestamp.t)
             after == SelectSeq(front, LAMBDA y : y.timestamp.t > x.timestamp.t)
         IN  before \o <<x>> \o after

\* get_communication_history without the final sort
get_communication_history_Unsorted(chain, agent_id, start_time, end_time) ==
    HistoryFilter(chain, agent_id, start_time, end_time)

get_communication_history(chain, agent_id, start_time, end_time) ==
    SortedByTimestamp(HistoryFilter(chain, agent_id, start_time, end_time))

\* The log_message / log_decision call that the step completes, if it is one.
LogCompleted == next_uuid' # next_uuid

HistoryAgentIds == LedgerAgentIds \cup {"ceo"}
TimeBounds == {NoTime} \cup { DateTime(t) : t \in 0..(MaxClock + 1) }

\* The entries the history of agent_id between the bounds is to hold.
InHistory(entry, agent_id, start_time, end_time) ==
    /\ "sender_id" \in DOMAIN entry
    /\ entry.sender_id = agent_id \/ entry.recipient_id = agent_id
    /\ start_time # NoTime => start_time.t <= entry.timestamp.t
    /\ end_time # NoTime => entry.timestamp.t <= end_time.t

\* C18: get_communication_history(agent_id, start_time, end_time) returns
\* exactly the entries that have agent_id as sender_id or recipient_id and a
\* timestamp within the bounds (each optional, inclusive), once each, in
\* ascending order of timestamp.
C18_HistoryExactAndOrdered ==
    \A agent_id \in HistoryAgentIds, start_time \in TimeBounds, end_time \in TimeBounds :
       LET h == get_communication_history(local_blockchain, agent_id,
                                          start_time, end_time)
           expected == { i \in 1..Len(local_blockchain) :
                            InHistory(local_blockchain[i], agent_id,
                                      start_time, end_time) }
       IN  /\ { h[k] : k \in 1..Len(h) } = { local_blockchain[i] : i \in expected }
           /\ Len(h) = Cardinality(expected)
           /\ \A j, k \in 1..Len(h) : j < k => h[j].timestamp.t <= h[k].timestamp.t

\* The chain holds a decision and two messages sent by sme to mgr, the later
\* one logged first: the history is not in chain order, and a bound cuts it.
C18_Witness ==
    /\ Len(local_blockchain) = 3
    /\ \E i, j \in 1..3 :
          /\ i < j
          /\ "sender_id" \in DOMAIN local_blockchain[i]
          /\ "sender_id" \in DOMAIN local_blockchain[j]
          /\ local_blockchain[i].sender_id = "sme"
          /\ local_blockchain[i].timestamp.t > local_blockchain[j].timestamp.t
          /\ get_communication_history(local_blockchain, "mgr", NoTime, NoTime)
                = <<local_blockchain[j], local_blockchain[i]>>
          /\ get_communication_history(local_blockchain, "sme", NoTime,
                                       local_blockchain[j].timestamp)
                \in {<<local_blockchain[j]>>, << >>}
    /\ \E k \in 1..3 : "agent_id" \in DOMAIN local_blockchain[k]

\* C19: log_message and log_decision each add exactly one entry at the end
\* of the chain and leave every entry stored before, and its position, as
\* it was.
C19_AppendOnly ==
    [][ LogCompleted =>
           /\ Len(local_blockchain') = Len(local_blockchain) + 1
           /\ SubSeq(local_blockchain', 1, Len(local_blockchain)) = local_blockchain
           /\ local_blockchain'[Len(local_blockchain')].entry_id = next_uuid ]_vars

\* A message and a decision were appended behind an earlier entry.
C19_Witness ==
    /\ Len(local_blockchain) = 3
    /\ last_log.op = "log_decision"
    /\ "message_id" \in DOMAIN local_blockchain[2]
    /\ "agent_id" \in DOMAIN local_blockchain[3]
    /\ \A i \in 1..3 : local_blockchain[i].entry_id = i

\* ------------------------------------------------------------ worker claims
\* process_message of agent a has raised inside a worker.
RaisedFor(a) == \E d \in delivered : d.agent_id = a /\ d.outcome = "raised"

\* The message with this id is in the queue the registry holds for agent a.
QueuedFor(a, id) ==
    /\ a \in DOMAIN message_queues
    /\ \E x \in QueuedMessages(QueueOf(queues, a)) : x.id = id

\* The message with this id was passed to process_message of agent a.
DeliveredTo(a, id) == \E d \in delivered : d.agent_id = a /\ d.message.id = id

\* C20: once process_message of an agent has raised in its worker, every
\* message that is in the agent's queue while processing runs is eventually
\* passed to the agent's process_message (or processing is stopped).
C20_WorkerSurvivesException ==
    \A a \in AgentIds : \A id \in 1..MaxMsgs :
       (RaisedFor(a) /\ QueuedFor(a, id) /\ ~shutdown_event)
          ~> (DeliveredTo(a, id) \/ shutdown_event)

\* The process_message calls that the step completes with an exception.
RaisedNow == { d \in delivered' \ delivered : d.outcome = "raised" }

\* C21: each time process_message raises inside a worker, messages_failed
\* grows by one.
C21_ProcessFailureCounted ==
    [][ RaisedNow # {} => stats'.messages_failed = stats.messages_failed + 1 ]_vars

\* start_processing has started threads and stop_processing was not called.
ProcessingRunning == processing_threads # << >> /\ ~shutdown_event

\* C22: while processing runs, every message in the queue of a registered
\* agent is eventually passed to that agent's process_message, whenever the
\* agent was registered.
C22_EnqueuedEventuallyProcessed ==
    \A a \in AgentIds : \A id \in 1..MaxMsgs :
       (ProcessingRunning /\ QueuedFor(a, id))
          ~> (DeliveredTo(a, id) \/ ~ProcessingRunning)

\* The threads that have not left the loop of _process_agent_messages.
LiveThreads == { i \in Threads : processing_threads[i].pc # "exited" }

\* C23: no agent has two dispatch workers: no two live threads serve the
\* same agent id or drain the same queue object, and no two threads are
\* inside process_message of the same agent.
C23_OneWorkerPerAgent ==
    \A i, j \in LiveThreads :
       i # j => /\ processing_threads[i].agent_id # processing_threads[j].agent_id
                /\ ~(/\ processing_threads[i].pc = "process"
                     /\ processing_threads[j].pc = "process"
                     /\ processing_threads[i].agent = processing_threads[j].agent)

\* Thread i passes the test of the while loop.
LoopTested(i) ==
    /\ i \in Threads
    /\ processing_threads[i].pc = "loop"
    /\ processing_threads'[i].pc # "loop"

\* C24: after stop_processing, a worker that holds a message finishes it
\* (process_message, then the send of the response), a worker that tests the
\* loop condition with the signal set takes no further message and leaves,
\* a worker that has left does nothing more, and every worker eventually
\* leaves.
C24_CooperativeStop ==
    /\ [][ \A i \in Threads :
              /\ (LoopTested(i) /\ shutdown_event)
                    => processing_threads'[i].pc = "exited"
              /\ processing_threads[i].pc = "exited"
                    => processing_threads'[i] = processing_threads[i]
              /\ processing_threads[i].pc \in {"get", "process", "send"}
                    => processing_threads'[i].pc # "exited" ]_vars
    /\ \A i \in 1..MaxThreads :
          (i \in Threads /\ processing_threads[i].pc \in {"process", "send"})
             ~> (i \in Threads /\ processing_threads[i].pc \in {"loop", "exited"})
    /\ shutdown_event ~> (\A i \in Threads : processing_threads[i].pc = "exited")

\* Processing was stopped, every worker has left, a worker sent the response
\* to a message it was handed, and a message is still queued.
C24_Witness ==
    /\ shutdown_event
    /\ Threads # {}
    /\ \A i \in Threads : processing_threads[i].pc = "exited"
    /\ last_send.seq > 0
    /\ last_send.by # "external"
    /\ \E d \in delivered : d.outcome = "response"
    /\ \E a \in DOMAIN message_queues : QueueOf(queues, a) # << >>

\* The ids the step registers although they are registered already.
ReRegistered ==
    { id \in DOMAIN message_queues : message_queues'[id] # message_queues[id] }

Unregistered ==
    { c.agent_id : c \in { x \in unregister_calls :
                              message_queues[x.agent_id] = x.queue } }

\* C26: unregister_agent(agent_id) returns with the agent removed from the
\* registry and its queue dropped, and a message sent to that agent
\* afterwards makes send_message return False and count a failure, with
\* nothing enqueued.
C26_UnregisterAgent ==
    [][ /\ \A c \in unregister_calls' \ unregister_calls :
              /\ ~c.raised
              /\ c.agent_id \notin DOMAIN agents'
              /\ c.agent_id \notin DOMAIN message_queues'
        /\ (SendCompleted /\ last_send'.message.recipient_id \in Unregistered) =>
              /\ last_send'.result = FALSE
              /\ stats'.messages_failed = stats.messages_failed + 1
              /\ queues' = queues ]_vars

\* C27: every queued message has a priority in 1..5 and is ordered by a
\* priority in that range.
C27_PriorityClamped ==
    \A i \in 1..Len(queues[StandaloneQueue][1]) :
       /\ queues[StandaloneQueue][1][i].message.priority \in 1..5
       /\ queues[StandaloneQueue][1][i].priority_value \in 1..5

\* C28: a call of MessageQueue.get returns, whatever timeout argument it was
\* given: no caller stays inside get for ever.
C28_GetReturns == (get_call.pc = "waiting") ~> (get_call.pc = "idle")

\* The routing rules permit a message of this type and priority from an agent
\* of the one role to an agent of the other.
RulePermits(source_role, target_role, message_type, priority) ==
    \E rule \in routing_rules :
       /\ rule.source_role = source_role
       /\ rule.target_role = target_role
       /\ message_type \in rule.message_types
       /\ rule.priority_threshold <= priority

\* C29: send_message puts a message in a target's queue only if a routing
\* rule permits it: a rule from the sender's role to the target's role that
\* lists the message's type and whose priority_threshold is not above the
\* message's priority.
C29_RoutingRulesEnforced ==
    [][ (SendCompleted /\ last_send'.put_in # NoneV)
           => RulePermits(agents[last_send'.message.sender_id].role,
                          agents[last_send'.put_in].role,
                          last_send'.message.message_type,
                          last_send'.message.priority) ]_vars

\* No send_message call is in progress.
AllSendsReturned == \A c \in SendCallers : sending[c].pc = "idle"

\* The RESPONSE messages that were put in a queue for the conversation.
ResponsesEnqueued(conversation_id) ==
    { e \in enqueued_log : /\ e.message_type = "response"
                           /\ e.conversation_id = conversation_id }

\* C30: once every concurrent send_message call has returned, no counter
\* update is lost: messages_processed + messages_failed is the number of
\* calls made, and each conversation's message_count is 1 plus the number of
\* RESPONSE messages enqueued for it.
C30_NoLostUpdate ==
    AllSendsReturned =>
       /\ stats.messages_processed + stats.messages_failed = next_msg_id - 1
       /\ \A conversation_id \in DOMAIN active_conversations :
             active_conversations[conversation_id].message_count
                = 1 + Cardinality(ResponsesEnqueued(conversation_id))

\* The label the claim gives for Q queued messages and the counters st.
SpecifiedLabel(Q, st) ==
    LET sent == st.messages_processed + st.messages_failed
        \* R > 10% and R > 5%, with R = 0 when nothing was sent
        over10 == sent > 0 /\ 100 * st.messages_failed > 10 * sent
        over5 == sent > 0 /\ 100 * st.messages_failed > 5 * sent
    IN  IF Q > 100 \/ over10 THEN "degraded"
        ELSE IF Q > 50 \/ over5 THEN "warning"
        ELSE "healthy"

\* C31: the system_health label is 'degraded' if Q > 100 or R > 10%,
\* otherwise 'warning' if Q > 50 or R > 5%, otherwise 'healthy', where Q is
\* the number of queued messages and R the failure rate (0 when no message
\* was sent); exactly at a threshold the lower label is given.
C31_HealthLabel ==
    system_health.called =>
       system_health.label
          = SpecifiedLabel(system_health.total_queue_size, system_health.stats)

C31_Witness ==
    /\ system_health.called
    /\ system_health.total_queue_size = 100
    /\ system_health.stats.messages_failed * 10
          = system_health.stats.messages_processed + system_health.stats.messages_failed
    /\ system_health.stats.messages_failed > 0
    /\ system_health.label = "warning"

\* C32: a send_message call that puts an ESCALATION or REQUEST in a queue
\* creates the conversation entry keyed by the message's id, with
\* original_sender the message's sender_id and message_count 1; one that puts
\* a RESPONSE naming an existing entry adds one to that entry's message_count
\* and keeps its original_sender; a call that returns False, and a REPORT or
\* NOTIFICATION, change no entry.
C32_ConversationTracking ==
    [][ SendCompleted =>
           LET m == last_send'.message
               enqueued == last_send'.put_in # NoneV
               conversation_id == m.content.conversation_id
           IN  /\ (enqueued /\ m.message_type \in {"escalation", "request"}) =>
                     /\ m.id \in DOMAIN active_conversations'
                     /\ active_conversations'[m.id].original_sender = m.sender_id
                     /\ active_conversations'[m.id].message_count = 1
               /\ (/\ enqueued
                   /\ m.message_type = "response"
                   /\ conversation_id \in DOMAIN active_conversations) =>
                     /\ active_conversations'[conversation_id].message_count
                           = active_conversations[conversation_id].message_count + 1
                     /\ active_conversations'[conversation_id].original_sender
                           = active_conversations[conversation_id].original_sender
               /\ (~last_send'.result \/ m.message_type \in {"report", "notification"})
                     => active_conversations' = active_conversations ]_vars

\* C33: send_message leaves a message's id, sender_id, message_type, content
\* and priority as they were, sets recipient_id to nothing but the target it
\* routed to, and leaves a timestamp that was set at creation unchanged.
C33_MessageFrame ==
    [][ SendCompleted =>
           LET m == last_send'.message
               after == last_send'.after
           IN  /\ after.id = m.id
               /\ after.sender_id = m.sender_id
               /\ after.message_type = m.message_type
               /\ after.content = m.content
               /\ after.priority = m.priority
               /\ after.recipient_id # m.recipient_id
                     => after.recipient_id = _route_message(m).target
               /\ after.timestamp = m.timestamp ]_vars

\* C34: validation rejects a message only for an empty sender_id, a sender
\* that is not registered, or content None: a message of a registered sender
\* with an empty dict as content is valid, and is logged and routed.
C34_EmptyContentValid ==
    [][ (/\ SendCompleted
         /\ last_send'.message.sender_id \in DOMAIN agents
         /\ last_send'.message.content.kind = "empty")
           => last_send'.valid ]_vars

\* The registered agents met when the manager_id links are followed from a,
\* a itself left out; the walk ends at an agent without a registered manager
\* or after as many links as there are agents.
RECURSIVE ManagersAbove(_, _)
ManagersAbove(a, links) ==
    IF links = 0 \/ a \notin DOMAIN agents THEN {}
    ELSE LET manager == agents[a].manager_id
         IN  IF manager \notin DOMAIN agents THEN {}
             ELSE {manager} \cup ManagersAbove(manager, links - 1)

\* C36: the registered agents form a tree: every registered agent that is
\* not the CEO has a manager_id, and following the manager_id links from an
\* agent never leads back to that agent.
C36_HierarchyIsTree ==
    \A a \in DOMAIN agents :
       /\ agents[a].role # "ceo" => agents[a].manager_id # NoneV
       /\ a \notin ManagersAbove(a, Cardinality(AgentIds))

\* C37: every message in a queue of agent X has recipient_id X, and every
\* message handed to X's process_message has recipient_id X.
C37_QueuedForRecipient ==
    /\ \A a \in AgentIds : \A q \in 1..Len(queues[a]) :
          \A x \in QueuedMessages(queues[a][q]) : x.recipient_id = a
    /\ \A d \in delivered : d.message.recipient_id = d.agent_id

\* An escalation sent without a recipient was handed to the manager's
\* process_message while another message waits in a queue.
C37_Witness ==
    /\ \E d \in delivered : /\ d.message.message_type = "escalation"
                            /\ d.agent_id = "mgr"
    /\ \E a \in AgentIds : \E q \in 1..Len(queues[a]) : queues[a][q] # << >>

\* Thread i's message_queue.get returns a message in this step.
GotNow(i) ==
    /\ i \in Threads
    /\ processing_threads[i].pc = "get"
    /\ processing_threads'[i].pc = "process"

\* C38: a message that get returns to a worker was not returned by a get
\* before: no other worker holds it and it was not passed to process_message
\* already, also when two workers drain the same queue.
C38_AtMostOnce ==
    [][ \A i \in Threads :
           GotNow(i) =>
              LET id == processing_threads'[i].message.id
              IN  /\ \A d \in delivered : d.message.id # id
                  /\ \A j \in Threads \ {i} : processing_threads[j].message.id # id
      ]_vars

\* Two workers of the same agent drain the same queue, and each holds a
\* message of its own that a successful send_message call had put there.
C38_Witness ==
    \E i, j \in Threads :
       /\ i # j
       /\ processing_threads[i].agent_id = processing_threads[j].agent_id
       /\ processing_threads[i].queue = processing_threads[j].queue
       /\ processing_threads[i].pc = "process"
       /\ processing_threads[j].pc = "process"
       /\ processing_threads[i].message.id # processing_threads[j].message.id
       /\ \A k \in {i, j} : \E e \in enqueued_log :
             e.message_id = processing_threads[k].message.id

OtherWorker(i, j) ==
    /\ i \in Threads /\ j \in Threads
    /\ processing_threads[i].pc = "process"
    /\ processing_threads[j].pc # "exited"
    /\ processing_threads[j].agent_id # processing_threads[i].agent_id

\* The message with this id is in the queue thread j drains.
InQueueOf(j, id) ==
    \E x \in QueuedMessages(queues[processing_threads[j].agent_id]
                                  [processing_threads[j].queue]) : x.id = id

\* C35: while the process_message call of one agent does not return, a
\* message in the queue of another agent's live worker is eventually passed
\* to that agent's process_message (unless processing is stopped), and a
\* send_message call by another thread can still be made.
C35_SlowAgentBlocksOnlyItself ==
    /\ \A j \in (1..MaxThreads) \ {SlowThread} : \A id \in 1..MaxMsgs :
          (OtherWorker(SlowThread, j) /\ InQueueOf(j, id) /\ ~shutdown_event)
             ~> (\/ (j \in Threads /\ DeliveredTo(processing_threads[j].agent_id, id))
                 \/ shutdown_event)
    /\ [](((SlowThread \in Threads /\ processing_threads[SlowThread].pc = "process")
             /\ next_msg_id <= MaxMsgs) => ENABLED SendToWorkers)

\* The slow agent's worker is inside process_message, and the worker of
\* another agent has passed a message to its agent meanwhile.
C35_Witness ==
    /\ SlowThread \in Threads
    /\ processing_threads[SlowThread].pc = "process"
    /\ \E j \in Threads \ {SlowThread} :
          /\ processing_threads[j].agent_id # processing_threads[SlowThread].agent_id
          /\ \E d \in delivered : d.agent_id = processing_threads[j].agent_id

====
